---------------------------- MODULE Spec2Model ----------------------------
(***************************************************************************)
(* A model of the deductive Sudoku solver of src/sudoku.py: the Cell and   *)
(* Sudoku classes, seeding (grid_parser), propagation, the worklist        *)
(* closure (set_values), find_unique, find_pairs and the solve driver.     *)
(* Every loop of the source is a sequence of steps of the model; the       *)
(* locals of the function that is running are variables of the model.      *)
(***************************************************************************)
EXTENDS Integers, Sequences, FiniteSets, TLC

(***************************************************************************)
(* Program constants.                                                      *)
(***************************************************************************)
Side == 9
BoxSide == 3
NbCells == 81
MaxRounds == 81

Cells == 0 .. (NbCells - 1)
Digits == 1 .. Side
UnitIds == 0 .. (Side - 1)

(***************************************************************************)
(* Cell.line, Cell.column, Cell.square.                                    *)
(***************************************************************************)
CellLine(c) == c \div Side
CellColumn(c) == c % Side
CellSquare(c) == (CellLine(c) \div BoxSide) * BoxSide + (CellColumn(c) \div BoxSide)

(***************************************************************************)
(* Sudoku.line, Sudoku.column, Sudoku.square: the cells of a unit.  The    *)
(* source returns them as a list in grid order; no caller depends on the   *)
(* order, so a unit is the set of its cells.                               *)
(***************************************************************************)
Lines == [i \in UnitIds |-> {c \in Cells : CellLine(c) = i}]
Columns == [i \in UnitIds |-> {c \in Cells : CellColumn(c) = i}]
Squares == [i \in UnitIds |-> {c \in Cells : CellSquare(c) = i}]
Line(i) == Lines[i]
Column(i) == Columns[i]
Square(i) == Squares[i]

(***************************************************************************)
(* Sudoku.neighbors: set(line_cells + square_cells + column_cells).        *)
(***************************************************************************)
NeighborsOf ==
    [c \in Cells |->
        Line(CellLine(c)) \cup Square(CellSquare(c)) \cup Column(CellColumn(c))]
Neighbors(c) == NeighborsOf[c]

(***************************************************************************)
(* Cell.__init__: the fields of a fresh cell.                              *)
(***************************************************************************)
FreshValue == [c \in Cells |-> 0]
FreshDomain == [c \in Cells |-> Digits]
FreshLocked == [c \in Cells |-> FALSE]
NoDico == [v \in Digits |-> {}]
NoPaires == [key \in {} |-> {}]
NoCell == 0 - 1

VARIABLES
    value,        \* Cell.value of each cell
    domain,       \* Cell.domain of each cell
    locked,       \* Cell.locked of each cell
    input_list,   \* grid_parser's argument, a flat list of 81 integers
    idx,          \* grid_parser's position i * 9 + j in input_list
    pc,           \* the statement the program is at
    frame,        \* the function that called set_values: "fu", "fp" or "sv"
    caller,       \* "top" or "solve": who called the running technique
    related,      \* related_cells of find_unique / find_pairs
    dico_val,     \* find_unique's dico_val
    dico_paires,  \* find_pairs's dico_paires
    work,         \* the worklist: todo (grid_parser, find_unique), cells (set_values)
    flag,         \* find_unique's rep, find_pairs's success
    updated,      \* set_values's updated
    k,            \* find_unique's loop variable over dico_val.items()
    ret,          \* the value the last call returned
    retcells,     \* the set returned by the propagate call of the last step
    arg,          \* the cell given to propagate in the last step, or NoCell
    lvl,          \* solve's lvl
    cpt,          \* solve's cpt
    results,      \* solve's results
    again,        \* the caller's record: solve was called at the level of the
                  \* solve that had just returned
    pre_domain,   \* the domains at the entry of the running call
    pre_locked    \* the locked flags at the entry of the running call

vars == <<value, domain, locked, input_list, idx, pc, frame, caller, related,
          dico_val, dico_paires, work, flag, updated, k, ret, retcells, arg,
          lvl, cpt, results, again, pre_domain, pre_locked>>

grid == <<value, domain, locked>>
solveVars == <<lvl, cpt, results, again>>

(***************************************************************************)
(* Cell.update_value's test: len(self.domain) == 1.                        *)
(***************************************************************************)
UpdateValueOk(dom, c) == Cardinality(dom[c]) = 1

(***************************************************************************)
(* Cell.update_value's assignment self.value = self.domain.pop(): the      *)
(* value is the element of the domain, and pop takes it out of the domain. *)
(***************************************************************************)
PoppedValue(dom, c) == CHOOSE v \in dom[c] : TRUE
PoppedDomain(dom, c) == [dom EXCEPT ![c] = dom[c] \ {PoppedValue(dom, c)}]

(***************************************************************************)
(* Sudoku.propagate(cell): the neighbors it removes cell.value from, the   *)
(* domains it leaves, and the set of cells it returns.                     *)
(***************************************************************************)
\* a propagate over the line of the cell only
PropagateHitsLine(dom, lck, val, c) ==
    {n \in Line(CellLine(c)) : ~lck[n] /\ val[c] \in dom[n]}

PropagateHits(dom, lck, val, c) ==
    {n \in Neighbors(c) : ~lck[n] /\ val[c] \in dom[n]}

PropagateDomain(dom, lck, val, c) ==
    LET hits == PropagateHits(dom, lck, val, c)
    IN  [n \in Cells |-> IF n \in hits THEN dom[n] \ {val[c]} ELSE dom[n]]

\* a propagate that returns no cell
PropagateCellsNone(dom, lck, val, c) == {}

\* a propagate that tests len(neighbor.domain) == 1 outside the removal
PropagateCellsAnySingle(dom, lck, val, c) ==
    {n \in Neighbors(c) : ~lck[n] /\ Cardinality(dom[n] \ {val[c]}) = 1}

PropagateCells(dom, lck, val, c) ==
    {n \in PropagateHits(dom, lck, val, c) : Cardinality(dom[n] \ {val[c]}) = 1}

(***************************************************************************)
(* grid_parser's test of one clue: 0 < value <= 9, not cell.locked,        *)
(* value in cell.domain.                                                   *)
(***************************************************************************)
\* a grid_parser without the test value in cell.domain
ParseAcceptsAnyDigit(v, c, dom, lck) == 0 < v /\ v <= Side /\ ~lck[c]

ParseAccepts(v, c, dom, lck) == 0 < v /\ v <= Side /\ ~lck[c] /\ v \in dom[c]

(***************************************************************************)
(* find_unique, phase 1: dico_val[v] holds the unlocked cells of           *)
(* related_cells whose domain contains v.                                  *)
(***************************************************************************)
\* a phase 1 that files a cell without candidates under every digit
DicoValOrEmpty(rel, dom, lck) ==
    [v \in Digits |-> {c \in rel : ~lck[c] /\ (v \in dom[c] \/ dom[c] = {})}]

DicoVal(rel, dom, lck) == [v \in Digits |-> {c \in rel : ~lck[c] /\ v \in dom[c]}]

(***************************************************************************)
(* find_unique, phase 2: the test len(l) == 1 and unique_case = l[0].      *)
(***************************************************************************)
\* a find_unique that tests len(l) == 2
IsUniqueOfTwo(l) == Cardinality(l) = 2

IsUnique(l) == Cardinality(l) = 1
UniqueCase(l) == CHOOSE c \in l : TRUE

(***************************************************************************)
(* find_pairs, phase 1: dico_paires maps each 2-element domain (the key    *)
(* tuple(sorted(case.domain))) to the cells of related_cells that have it. *)
(***************************************************************************)
DicoPaires(rel, dom) ==
    [key \in {dom[c] : c \in {x \in rel : Cardinality(dom[x]) = 2}} |->
        {c \in rel : dom[c] = key}]

(***************************************************************************)
(* find_pairs, phase 2: the test len(pair_list) == 2; every cell of        *)
(* related_cells outside a pair loses the pair's values (reduce_domain).   *)
(***************************************************************************)
\* a find_pairs that tests len(pair_list) <= 2
IsPairOrLone(pair_list) == Cardinality(pair_list) <= 2

IsPair(pair_list) == Cardinality(pair_list) = 2

\* a find_pairs that tests case in pair_list
ReducedByInPair(dp, c) == UNION {key \in DOMAIN dp : IsPair(dp[key]) /\ c \in dp[key]}

ReducedBy(dp, c) == UNION {key \in DOMAIN dp : IsPair(dp[key]) /\ c \notin dp[key]}

\* a reduce_domain that does self.domain ^= set(values)
ReduceDomainSym(rel, dp, dom) ==
    [c \in Cells |->
        IF c \in rel
        THEN (dom[c] \ ReducedBy(dp, c)) \cup (ReducedBy(dp, c) \ dom[c])
        ELSE dom[c]]

ReduceDomain(rel, dp, dom) ==
    [c \in Cells |-> IF c \in rel THEN dom[c] \ ReducedBy(dp, c) ELSE dom[c]]

(***************************************************************************)
(* solve: the units in the order of a round, the number of technique       *)
(* calls of a round, and the tests any(results) and cpt < 81.              *)
(***************************************************************************)
Unit(n) == IF n < Side THEN Line(n)
           ELSE IF n < 2 * Side THEN Column(n - Side)
           ELSE Square(n - 2 * Side)

NbUnits == 3 * Side

NbTechCalls(l) == IF l = 1 THEN NbUnits ELSE IF l = 2 THEN 2 * NbUnits ELSE 0

AnyResult(res) == \E i \in 1 .. Len(res) : res[i]

\* a solve that breaks after its first round
SolveGoesOnNever(res, n) == FALSE

\* a solve that never breaks
SolveGoesOnAnyway(res, n) == n + 1 < MaxRounds

SolveGoesOn(res, n) == AnyResult(res) /\ n + 1 < MaxRounds

(***************************************************************************)
(* The seeds given to grid_parser.  Clues(f) is the flat list of 81        *)
(* integers that holds f[c] at cell c and 0 elsewhere.                     *)
(***************************************************************************)
Clues(f) == [i \in 1 .. NbCells |-> IF (i - 1) \in DOMAIN f THEN f[i - 1] ELSE 0]

\* a complete valid solution: every cell is a clue
SeedSolved ==
    [i \in 1 .. NbCells |->
        ((BoxSide * (CellLine(i - 1) % BoxSide) + (CellLine(i - 1) \div BoxSide)
          + CellColumn(i - 1)) % Side) + 1]

\* digit 1 is left to cell 0 alone in line 0, column 0 and square 0
SeedHidden == Clues(12 :> 1 @@ 24 :> 1 @@ 28 :> 1 @@ 56 :> 1)

\* digits 1 and 2 are both left to cell 0 alone in line 0
SeedDouble == Clues(12 :> 1 @@ 24 :> 1 @@ 28 :> 1 @@ 56 :> 1 @@
                    13 :> 2 @@ 25 :> 2 @@ 37 :> 2 @@ 65 :> 2)

\* cells 0 and 1 are left with {1, 2}, cell 2 with {1, 2, 9}
SeedPair == Clues(3 :> 3 @@ 4 :> 4 @@ 5 :> 5 @@ 6 :> 6 @@ 7 :> 7 @@ 8 :> 8 @@
                  27 :> 9 @@ 55 :> 9)

\* cells 0, 1 and 2 are all three left with {1, 2}
SeedTriple == Clues(3 :> 3 @@ 4 :> 4 @@ 5 :> 5 @@ 6 :> 6 @@ 7 :> 7 @@ 8 :> 8 @@
                    9 :> 9)

\* cell 0 is left with {9}, cell 1 with {4, 9}
SeedChain == Clues(3 :> 1 @@ 4 :> 2 @@ 27 :> 3 @@ 36 :> 4 @@ 10 :> 5 @@ 11 :> 6 @@
                   19 :> 7 @@ 20 :> 8 @@ 64 :> 3)

\* clues repeated in a line, a column and a square, and clues outside 1..9
SeedDup == Clues(0 :> 5 @@ 1 :> 5 @@ 2 :> 10 @@ 3 :> (0 - 1) @@ 4 :> 3 @@
                 10 :> 5 @@ 12 :> 3 @@ 36 :> 5 @@ 40 :> 3)

\* cells 0, 1 and 2 are all three left with {9}: no grid completes this seed
SeedClash == Clues(3 :> 1 @@ 4 :> 2 @@ 5 :> 3 @@ 6 :> 4 @@ 7 :> 5 @@ 8 :> 6 @@
                   9 :> 7 @@ 10 :> 8)

\* a seed whose first two rounds of solve both make a cell final
SeedRounds == Clues(0 :> 9 @@ 1 :> 5 @@ 25 :> 1 @@ 40 :> 1 @@ 44 :> 3 @@ 56 :> 1 @@
                    57 :> 6 @@ 68 :> 2 @@ 80 :> 1)

\* the seeds of the runs that call the techniques directly
Seeds == {SeedHidden, SeedDouble, SeedPair, SeedTriple, SeedChain, SeedDup, SeedClash}

\* the seeds of the runs that call solve
SolveSeeds == {SeedSolved, SeedPair, SeedChain, SeedClash, SeedRounds}

\* the units a caller hands to find_unique and find_pairs directly: line 0,
\* column 0 and square 0, by their place in solve's order
CalledUnits == {0, Side, 2 * Side}

\* the levels a caller gives solve
CalledLevels == {1, 2}

\* the worklists a caller hands to set_values directly: the sets of cells
\* among cells 0 .. MaxWorkCell
MaxWorkCell == 1
WorkCells == 0 .. MaxWorkCell
Worklists == SUBSET WorkCells

(***************************************************************************)
(* Sudoku.__init__ / reset: 81 fresh cells.                                *)
(***************************************************************************)
Init ==
    /\ value = FreshValue
    /\ domain = FreshDomain
    /\ locked = FreshLocked
    /\ input_list = <<>>
    /\ idx = 0
    /\ pc = "new"
    /\ frame = "none"
    /\ caller = "top"
    /\ related = {}
    /\ dico_val = NoDico
    /\ dico_paires = NoPaires
    /\ work = {}
    /\ flag = FALSE
    /\ updated = FALSE
    /\ k = 1
    /\ ret = FALSE
    /\ retcells = {}
    /\ arg = NoCell
    /\ lvl = 0
    /\ cpt = 0
    /\ results = <<>>
    /\ again = FALSE
    /\ pre_domain = FreshDomain
    /\ pre_locked = FreshLocked

locals == <<related, dico_val, dico_paires, work, flag, updated, k, frame>>
snapshot == <<pre_domain, pre_locked>>

\* the step calls propagate(c) on the grid <<val, dom, lck>>
CallsPropagate(val, dom, lck, c) ==
    /\ value' = val
    /\ locked' = lck
    /\ domain' = PropagateDomain(dom, lck, val, c)
    /\ retcells' = PropagateCells(dom, lck, val, c)
    /\ arg' = c

\* the step calls no propagate
NoPropagate ==
    /\ retcells' = {}
    /\ arg' = NoCell

(***************************************************************************)
(* grid_parser(input_list): reset, then one step per clue.  The todo set   *)
(* is filled and dropped when the function returns.                        *)
(***************************************************************************)
GridParserCall(seed) ==
    /\ pc = "new"
    /\ value' = FreshValue
    /\ domain' = FreshDomain
    /\ locked' = FreshLocked
    /\ input_list' = seed
    /\ idx' = 0
    /\ work' = {}
    /\ pc' = "parse"
    /\ NoPropagate
    /\ UNCHANGED <<frame, caller, related, dico_val, dico_paires, flag, updated, k,
                   ret, solveVars, snapshot>>

GridParserStep ==
    /\ pc = "parse"
    /\ idx < NbCells
    /\ LET v == input_list[idx + 1]
           c == idx
       IN  IF ParseAccepts(v, c, domain, locked)
           THEN /\ CallsPropagate([value EXCEPT ![c] = v],
                                  [domain EXCEPT ![c] = {v}],
                                  [locked EXCEPT ![c] = TRUE], c)
                /\ work' = work \cup retcells'
           ELSE /\ NoPropagate
                /\ UNCHANGED <<grid, work>>
    /\ idx' = idx + 1
    /\ UNCHANGED <<input_list, pc, frame, caller, related, dico_val, dico_paires,
                   flag, updated, k, ret, solveVars, snapshot>>

GridParserReturn ==
    /\ pc = "parse"
    /\ idx = NbCells
    /\ work' = {}
    /\ pc' = "idle"
    /\ NoPropagate
    /\ UNCHANGED <<grid, input_list, idx, frame, caller, related, dico_val,
                   dico_paires, flag, updated, k, ret, solveVars, snapshot>>

(***************************************************************************)
(* propagate(cell), called by the user on a locked cell.                   *)
(***************************************************************************)
PropagateCall(c) ==
    /\ pc = "idle"
    /\ locked[c]
    /\ CallsPropagate(value, domain, locked, c)
    /\ pc' = "prop_ret"
    /\ UNCHANGED <<input_list, idx, caller, locals, ret, solveVars, snapshot>>

(***************************************************************************)
(* set_values(cells): the while loop pops any cell of the set.             *)
(***************************************************************************)
EnterSetValues(w, f) ==
    /\ work' = w
    /\ updated' = FALSE
    /\ frame' = f
    /\ pc' = "sv_loop"
    /\ NoPropagate

SetValuesCall(w) ==
    /\ pc = "idle"
    /\ EnterSetValues(w, "sv")
    /\ pre_domain' = domain
    /\ pre_locked' = locked
    /\ UNCHANGED <<grid, input_list, idx, caller, related, dico_val, dico_paires,
                   flag, k, ret, solveVars>>

SetValuesStep ==
    /\ pc = "sv_loop"
    /\ \E c \in work :
          IF UpdateValueOk(domain, c)
          THEN /\ CallsPropagate([value EXCEPT ![c] = PoppedValue(domain, c)],
                                 PoppedDomain(domain, c),
                                 [locked EXCEPT ![c] = TRUE], c)
               /\ work' = (work \ {c}) \cup retcells'
               /\ updated' = TRUE
          ELSE /\ work' = work \ {c}
               /\ NoPropagate
               /\ UNCHANGED <<grid, updated>>
    /\ UNCHANGED <<input_list, idx, pc, frame, caller, related, dico_val,
                   dico_paires, flag, k, ret, solveVars, snapshot>>

SetValuesReturn ==
    /\ pc = "sv_loop"
    /\ work = {}
    /\ ret' = IF frame = "sv" THEN updated ELSE (updated \/ flag)
    /\ pc' = IF frame = "fu" THEN "fu_ret" ELSE IF frame = "fp" THEN "fp_ret" ELSE "sv_ret"
    /\ NoPropagate
    /\ UNCHANGED <<grid, input_list, idx, caller, locals, solveVars, snapshot>>

(***************************************************************************)
(* find_unique(related_cells): phase 1 at the entry, phase 2 one step per  *)
(* item of dico_val, then set_values(todo).                                *)
(***************************************************************************)
EnterFindUnique(u, who) ==
    /\ related' = u
    /\ dico_val' = DicoVal(u, domain, locked)
    /\ work' = {}
    /\ flag' = FALSE
    /\ k' = 1
    /\ frame' = "fu"
    /\ caller' = who
    /\ pc' = "fu_loop"
    /\ pre_domain' = domain
    /\ pre_locked' = locked
    /\ NoPropagate
    /\ UNCHANGED <<grid, input_list, idx, dico_paires, updated, ret>>

FindUniqueCall(u) ==
    /\ pc = "idle"
    /\ EnterFindUnique(u, "top")
    /\ UNCHANGED solveVars

FindUniqueStep ==
    /\ pc = "fu_loop"
    /\ k <= Side
    /\ IF IsUnique(dico_val[k])
       THEN LET c == UniqueCase(dico_val[k])
            IN  /\ flag' = TRUE
                /\ CallsPropagate([value EXCEPT ![c] = k],
                                  [domain EXCEPT ![c] = {k}],
                                  [locked EXCEPT ![c] = TRUE], c)
                /\ work' = work \cup {c} \cup retcells'
       ELSE /\ NoPropagate
            /\ UNCHANGED <<grid, flag, work>>
    /\ k' = k + 1
    /\ UNCHANGED <<input_list, idx, pc, frame, caller, related, dico_val,
                   dico_paires, updated, ret, solveVars, snapshot>>

FindUniqueClose ==
    /\ pc = "fu_loop"
    /\ k > Side
    /\ EnterSetValues(work, "fu")
    /\ UNCHANGED <<grid, input_list, idx, caller, related, dico_val, dico_paires,
                   flag, k, ret, solveVars, snapshot>>

(***************************************************************************)
(* find_pairs(related_cells): phase 1 at the entry, phase 2 in one step,   *)
(* then set_values(set(related_cells)).                                    *)
(***************************************************************************)
EnterFindPairs(u, who) ==
    /\ related' = u
    /\ dico_paires' = DicoPaires(u, domain)
    /\ flag' = FALSE
    /\ frame' = "fp"
    /\ caller' = who
    /\ pc' = "fp_reduce"
    /\ pre_domain' = domain
    /\ pre_locked' = locked
    /\ NoPropagate
    /\ UNCHANGED <<grid, input_list, idx, dico_val, work, updated, k, ret>>

FindPairsCall(u) ==
    /\ pc = "idle"
    /\ EnterFindPairs(u, "top")
    /\ UNCHANGED solveVars

FindPairsReduce ==
    /\ pc = "fp_reduce"
    /\ domain' = ReduceDomain(related, dico_paires, domain)
    /\ flag' = \E c \in related : Cardinality(domain'[c]) # Cardinality(domain[c])
    /\ work' = related
    /\ updated' = FALSE
    /\ pc' = "sv_loop"
    /\ NoPropagate
    /\ UNCHANGED <<value, locked, input_list, idx, frame, caller, related, dico_val,
                   dico_paires, k, ret, solveVars, snapshot>>

(***************************************************************************)
(* The return of a technique or of a direct call: the locals go; under     *)
(* solve the returned value is appended to results.                        *)
(***************************************************************************)
Return ==
    /\ pc \in {"fu_ret", "fp_ret", "sv_ret", "prop_ret"}
    /\ related' = {}
    /\ dico_val' = NoDico
    /\ dico_paires' = NoPaires
    /\ work' = {}
    /\ flag' = FALSE
    /\ updated' = FALSE
    /\ k' = 1
    /\ frame' = "none"
    /\ NoPropagate
    /\ pre_domain' = FreshDomain
    /\ pre_locked' = FreshLocked
    /\ IF caller = "solve"
       THEN /\ results' = Append(results, ret)
            /\ pc' = "solve_loop"
       ELSE /\ results' = results
            /\ pc' = "idle"
    /\ UNCHANGED <<grid, input_list, idx, caller, ret, lvl, cpt, again>>

(***************************************************************************)
(* solve(lvl): a round calls the techniques unit by unit; at its end       *)
(* any(results) decides between cpt += 1 and break.                        *)
(***************************************************************************)
SolveCall(l) ==
    /\ pc = "idle"
    /\ lvl' = l
    /\ again' = (lvl = l)
    /\ cpt' = 0
    /\ results' = <<>>
    /\ caller' = "solve"
    /\ pc' = "solve_loop"
    /\ NoPropagate
    /\ UNCHANGED <<grid, input_list, idx, locals, ret, snapshot>>

SolveStep ==
    /\ pc = "solve_loop"
    /\ Len(results) < NbTechCalls(lvl)
    /\ IF lvl = 1
       THEN EnterFindUnique(Unit(Len(results)), "solve")
       ELSE IF Len(results) % 2 = 0
            THEN EnterFindUnique(Unit(Len(results) \div 2), "solve")
            ELSE EnterFindPairs(Unit(Len(results) \div 2), "solve")
    /\ UNCHANGED solveVars

SolveRoundEnd ==
    /\ pc = "solve_loop"
    /\ Len(results) = NbTechCalls(lvl)
    /\ cpt' = IF AnyResult(results) THEN cpt + 1 ELSE cpt
    /\ results' = <<>>
    /\ IF SolveGoesOn(results, cpt)
       THEN /\ pc' = "solve_loop"
            /\ caller' = caller
       ELSE /\ pc' = "idle"
            /\ caller' = "top"
    /\ NoPropagate
    /\ UNCHANGED <<grid, input_list, idx, locals, ret, lvl, again, snapshot>>

(***************************************************************************)
(* The program whose user seeds the grid and then calls propagate,         *)
(* set_values, find_unique and find_pairs directly, in any order.          *)
(***************************************************************************)
Next ==
    \/ \E seed \in Seeds : GridParserCall(seed)
    \/ GridParserStep
    \/ GridParserReturn
    \/ \E c \in Cells : PropagateCall(c)
    \/ \E w \in Worklists : SetValuesCall(w)
    \/ SetValuesStep
    \/ SetValuesReturn
    \/ \E n \in CalledUnits : FindUniqueCall(Unit(n))
    \/ FindUniqueStep
    \/ FindUniqueClose
    \/ \E n \in CalledUnits : FindPairsCall(Unit(n))
    \/ FindPairsReduce
    \/ Return

Spec == Init /\ [][Next]_vars

(***************************************************************************)
(* The program whose user seeds the grid and then calls solve, any number  *)
(* of times.                                                               *)
(***************************************************************************)
SolveNext ==
    \/ \E seed \in SolveSeeds : GridParserCall(seed)
    \/ GridParserStep
    \/ GridParserReturn
    \/ \E l \in CalledLevels : SolveCall(l)
    \/ SolveStep
    \/ SolveRoundEnd
    \/ SetValuesStep
    \/ SetValuesReturn
    \/ FindUniqueStep
    \/ FindUniqueClose
    \/ FindPairsReduce
    \/ Return

SolveSpec == Init /\ [][SolveNext]_vars

(***************************************************************************)
(* The claims.  The cells of the grid other than c that share a line, a    *)
(* column or a square with c are the neighbors relation the claims mean.   *)
(***************************************************************************)
PeersOf ==
    [c \in Cells |->
        {n \in Cells \ {c} : \/ CellLine(n) = CellLine(c)
                             \/ CellColumn(n) = CellColumn(c)
                             \/ CellSquare(n) = CellSquare(c)}]
Peers(c) == PeersOf[c]

Max(S) == CHOOSE m \in S : \A e \in S : e <= m

\* the non-final cells of the unit that held digit d when the call began
HoldersAtEntry(d) == {c \in related : ~pre_locked[c] /\ d \in pre_domain[c]}

\* the digits cell c alone held in the unit when the call began
SoleDigits(c) == {d \in Digits : HoldersAtEntry(d) = {c}}

SharersAtEntry(S) == {c \in related : ~pre_locked[c] /\ pre_domain[c] = S}

\* the 2-element candidate sets of non-final cells of the unit at the call
PairSetsAtEntry ==
    {pre_domain[c] : c \in {x \in related : ~pre_locked[x] /\ Cardinality(pre_domain[x]) = 2}}

\* no non-final cell of the unit outside P holds a digit of S
OthersFreeOf(S, P) ==
    \A n \in related \ P : ~locked[n] => domain[n] \cap S = {}

\* C2, as stated: when find_pairs returns, for any two non-final cells of the
\* unit that had the same 2-element candidate set at the call, no other cell
\* of the unit that is still non-final holds a digit of that set.
C2_NakedPairAsStated ==
    pc = "fp_ret" =>
        \A S \in PairSetsAtEntry : \A a, b \in SharersAtEntry(S) :
            a # b => OthersFreeOf(S, {a, b})

\* C2, amended: when find_pairs returns, for every 2-element candidate set
\* that exactly two non-final cells of the unit had at the call, no other
\* cell of the unit that is still non-final holds a digit of that set.
C2_NakedPair ==
    pc = "fp_ret" =>
        \A S \in PairSetsAtEntry :
            Cardinality(SharersAtEntry(S)) = 2 => OthersFreeOf(S, SharersAtEntry(S))

\* C2 witness: find_pairs returns from a unit in which exactly two cells
\* shared a 2-element set and a third non-final cell held one of its digits.
C2_Witness ==
    /\ pc = "fp_ret"
    /\ \E S \in PairSetsAtEntry :
          /\ Cardinality(SharersAtEntry(S)) = 2
          /\ \E n \in related \ SharersAtEntry(S) :
                ~pre_locked[n] /\ pre_domain[n] \cap S # {}

\* C3: every final cell has exactly one candidate, its value.
C3_FinalHasItsValue == \A c \in Cells : locked[c] => domain[c] = {value[c]}

\* a measure of what is left of a solve that is running: the rounds left,
\* the technique calls left in the round, and what is left of the technique
\* call (the items of dico_val left, then the cells with a candidate and the
\* worklist cells left to the closure: update_value empties the domain of
\* the cell it finalizes)
OpenCount == Cardinality({c \in Cells : domain[c] # {}})
ClosureSpan == (NbCells + 1) * (NbCells + 1)
StageSpan == ClosureSpan + Side + 4
StageLeft ==
    IF pc = "solve_loop" THEN StageSpan - 1
    ELSE IF pc = "fp_reduce" THEN ClosureSpan + Side + 2
    ELSE IF pc = "fu_loop" THEN ClosureSpan + 1 + (Side + 1 - k)
    ELSE IF pc = "sv_loop" THEN 1 + OpenCount * (NbCells + 1) + Cardinality(work)
    ELSE 0
SolveLeft ==
    IF caller = "solve"
    THEN ((MaxRounds - cpt) * (2 * NbUnits + 1) + (NbTechCalls(lvl) - Len(results)))
             * StageSpan + StageLeft
    ELSE 0

\* C4: while solve runs it is in a round no later than the 81st and it can
\* take a step; every step of it lowers the measure SolveLeft, which is a
\* natural number, so that solve returns; and the end of a round in which
\* every technique call returned false is the return of solve.
C4_SolveTerminates ==
    /\ [](caller = "solve" => cpt + 1 <= MaxRounds /\ SolveLeft > 0 /\ ENABLED SolveNext)
    /\ [][caller = "solve" => SolveLeft' < SolveLeft]_vars
    /\ [][(pc = "solve_loop" /\ Len(results) = NbTechCalls(lvl)
            /\ \A i \in 1 .. Len(results) : ~results[i])
          => (pc' = "idle" /\ caller' = "top")]_vars

\* C4 witness: solve has returned after at least one productive round.
C4_Witness == pc = "idle" /\ lvl \in {1, 2} /\ cpt >= 1

\* the grid as seeding leaves it when every clue of the seed is accepted
SeededValue(seed) == [c \in Cells |-> seed[c + 1]]
SeededDomain(seed) == [c \in Cells |-> {seed[c + 1]}]

\* C5: with the complete valid solution as seed, whenever no call is running
\* (after seeding, and after each solve) every cell has the value, the
\* candidate set and the finality that seeding gave it.
C5_RoundTrip ==
    (pc = "idle" /\ input_list = SeedSolved) =>
        /\ value = SeededValue(SeedSolved)
        /\ domain = SeededDomain(SeedSolved)
        /\ \A c \in Cells : locked[c]

\* C6: a step of grid_parser assigns its clue v to its cell (final, value v,
\* candidates {v}) exactly when v is in 1..9, the cell is not final and v is
\* among its candidates; otherwise it leaves the cell as it was; and every
\* cell that was final stays final with its value.
C6_SeedingLeniency ==
    [][(pc = "parse" /\ idx < NbCells) =>
        LET v == input_list[idx + 1]
            c == idx
            ok == v \in Digits /\ ~locked[c] /\ v \in domain[c]
        IN  /\ ok => locked'[c] /\ value'[c] = v /\ domain'[c] = {v}
            /\ ~ok => /\ locked'[c] = locked[c]
                      /\ value'[c] = value[c]
                      /\ domain'[c] = domain[c]
            /\ \A e \in Cells : locked[e] => locked'[e] /\ value'[e] = value[e]
            /\ pc' = "parse"]_vars

\* C6 witness: grid_parser has passed a clue in 1..9 that it did not assign,
\* and a clue outside 0..9.
C6_Witness ==
    /\ pc = "parse"
    /\ \E i \in 0 .. (idx - 1) : input_list[i + 1] \in Digits /\ ~locked[i]
    /\ \E i \in 0 .. (idx - 1) : input_list[i + 1] \notin 0 .. Side

\* C7: when a direct set_values returns, every cell that was final at the
\* call is as it was, and the value returned is true exactly when some cell
\* that was not final at the call is final.
C7_ClosureResult ==
    pc = "sv_ret" =>
        /\ \A c \in Cells : pre_locked[c] => domain[c] = pre_domain[c] /\ locked[c]
        /\ ret <=> \E c \in Cells : ~pre_locked[c] /\ locked[c]

\* C8: a step that calls propagate on the (final) cell c leaves no non-final
\* neighbor with c's value among its candidates, returns exactly the non-final
\* neighbors that held c's value and had two candidates, and changes the value
\* and the finality of no other cell.
C8_PropagatePost ==
    [][arg' # NoCell =>
        LET c == arg'
        IN  /\ locked'[c]
            /\ \A n \in Peers(c) : ~locked'[n] => value'[c] \notin domain'[n]
            /\ retcells' = {n \in Peers(c) : /\ ~locked[n]
                                             /\ value'[c] \in domain[n]
                                             /\ Cardinality(domain[n]) = 2}
            /\ \A n \in Cells \ {c} : value'[n] = value[n] /\ locked'[n] = locked[n]]_vars

\* C8 witness: the last step called propagate, which returned some cell and
\* did not return another non-final neighbor, left with several candidates.
C8_Witness ==
    /\ arg # NoCell
    /\ retcells # {}
    /\ \E n \in Peers(arg) \ retcells : ~locked[n] /\ Cardinality(domain[n]) > 1

\* C9: the neighbors that propagate asks for, for the cell it is called on, do
\* not contain that cell and are 20 cells.
C9_Neighbors ==
    \A c \in Cells :
        arg = c => c \notin Neighbors(c) /\ Cardinality(Neighbors(c)) = 20

\* C10: no step gives a non-final cell a candidate it did not have.
C10_MonotonicShrink ==
    [][\A c \in Cells : ~locked[c] => domain'[c] \subseteq domain[c]]_vars

\* C10 witness: between two calls, a non-final cell has lost candidates.
C10_Witness ==
    /\ pc = "idle"
    /\ \E c \in Cells : ~locked[c] /\ domain[c] # Digits /\ domain[c] # {}

\* C11: no step changes the value of a final cell or makes it non-final.
C11_FinalImmutable ==
    [][\A c \in Cells : locked[c] => locked'[c] /\ value'[c] = value[c]]_vars

(***************************************************************************)
(* Complete grids, one row per line, that the seeds above agree with.      *)
(***************************************************************************)
SolutionHidden ==
    <<1, 2, 3, 4, 5, 6, 7, 8, 9,
      7, 8, 9, 1, 2, 3, 4, 5, 6,
      4, 5, 6, 7, 8, 9, 1, 2, 3,
      3, 1, 2, 6, 7, 4, 8, 9, 5,
      8, 7, 5, 9, 1, 2, 3, 6, 4,
      6, 9, 4, 5, 3, 8, 2, 1, 7,
      2, 4, 1, 3, 6, 5, 9, 7, 8,
      5, 3, 7, 8, 9, 1, 6, 4, 2,
      9, 6, 8, 2, 4, 7, 5, 3, 1>>

SolutionPair ==
    <<1, 2, 9, 3, 4, 5, 6, 7, 8,
      3, 4, 5, 6, 7, 8, 1, 2, 9,
      6, 7, 8, 1, 2, 9, 3, 4, 5,
      9, 1, 2, 4, 3, 6, 8, 5, 7,
      7, 5, 4, 8, 9, 1, 2, 6, 3,
      8, 3, 6, 7, 5, 2, 4, 9, 1,
      4, 9, 3, 2, 1, 7, 5, 8, 6,
      2, 6, 7, 5, 8, 3, 9, 1, 4,
      5, 8, 1, 9, 6, 4, 7, 3, 2>>

SolutionPairSwapped ==
    <<2, 1, 9, 3, 4, 5, 6, 7, 8,
      3, 4, 5, 6, 7, 8, 1, 2, 9,
      6, 7, 8, 1, 2, 9, 3, 4, 5,
      9, 2, 1, 4, 3, 6, 5, 8, 7,
      7, 5, 4, 8, 9, 1, 2, 6, 3,
      8, 3, 6, 7, 5, 2, 4, 9, 1,
      1, 9, 3, 2, 8, 4, 7, 5, 6,
      4, 8, 7, 5, 6, 3, 9, 1, 2,
      5, 6, 2, 9, 1, 7, 8, 3, 4>>

SolutionChain ==
    <<9, 4, 3, 1, 2, 5, 6, 7, 8,
      1, 5, 6, 7, 8, 9, 2, 3, 4,
      2, 7, 8, 3, 4, 6, 1, 5, 9,
      3, 6, 1, 9, 5, 4, 7, 8, 2,
      4, 8, 2, 6, 7, 3, 9, 1, 5,
      5, 9, 7, 2, 1, 8, 3, 4, 6,
      6, 1, 4, 5, 9, 7, 8, 2, 3,
      7, 3, 5, 8, 6, 2, 4, 9, 1,
      8, 2, 9, 4, 3, 1, 5, 6, 7>>

SolutionRounds ==
    <<9, 5, 2, 4, 7, 1, 8, 3, 6,
      8, 1, 4, 3, 2, 6, 7, 5, 9,
      6, 3, 7, 9, 5, 8, 2, 1, 4,
      5, 7, 9, 8, 6, 3, 1, 4, 2,
      4, 2, 8, 5, 1, 7, 9, 6, 3,
      1, 6, 3, 2, 4, 9, 5, 7, 8,
      7, 9, 1, 6, 8, 4, 3, 2, 5,
      3, 4, 5, 1, 9, 2, 6, 8, 7,
      2, 8, 6, 7, 3, 5, 4, 9, 1>>

Solutions ==
    {SeedSolved, SolutionHidden, SolutionPair, SolutionPairSwapped, SolutionChain,
     SolutionRounds}

\* S is a complete valid solution: each line, column and square holds the
\* nine digits
IsSolution(S) ==
    \A n \in 0 .. (NbUnits - 1) : {S[c + 1] : c \in Unit(n)} = Digits

\* every clue of the seed is the digit S has at its place
Agrees(seed, S) == \A i \in 1 .. NbCells : seed[i] # 0 => seed[i] = S[i]

\* the complete valid solutions each seed agrees with
SolutionsOf ==
    [seed \in Seeds \cup SolveSeeds |->
        {S \in Solutions : IsSolution(S) /\ Agrees(seed, S)}]

\* the complete valid solutions the seed of the run agrees with
SolutionsOfSeed ==
    IF input_list \in DOMAIN SolutionsOf THEN SolutionsOf[input_list] ELSE {}

\* C12: for every complete valid solution the seed agrees with, in every state
\* of seeding and of solve, every final cell has the solution's value and
\* every non-final cell has the solution's value among its candidates.
C12_Sound ==
    \A S \in SolutionsOfSeed : \A c \in Cells :
        IF locked[c] THEN value[c] = S[c + 1] ELSE S[c + 1] \in domain[c]

\* C12 witness: under a seed that two solutions agree with, solve is running
\* at level 2, find_pairs has taken candidates from a cell of its unit and a
\* cell that was no clue is final.
C12_Witness ==
    /\ Cardinality(SolutionsOfSeed) >= 2
    /\ caller = "solve"
    /\ lvl = 2
    /\ pc = "sv_loop"
    /\ frame = "fp"
    /\ flag
    /\ \E c \in Cells : locked[c] /\ input_list[c + 1] = 0

\* C13: no two final cells that share a line, a column or a square have the
\* same value.
C13_NoDuplicate ==
    \A c \in Cells :
        locked[c] => \A n \in Peers(c) : locked[n] => value[n] # value[c]

\* C13 witness: under a seed that none of the grids above agrees with (its
\* clues repeat or leave no grid), a technique call returns having made a
\* cell final.
C13_Witness ==
    /\ pc \in {"fu_ret", "fp_ret", "sv_ret"}
    /\ SolutionsOfSeed = {}
    /\ \E c \in Cells : locked[c] /\ ~pre_locked[c]

\* the grids and return values set_values can end with, over every order of
\* popping, from the grid <<val, dom, lck>>, the worklist W and updated = upd
RECURSIVE ClosureOutcomes(_, _, _, _, _)
ClosureOutcomes(val, dom, lck, W, upd) ==
    IF W = {}
    THEN {<<val, dom, lck, upd>>}
    ELSE UNION {
            IF UpdateValueOk(dom, c)
            THEN LET val2 == [val EXCEPT ![c] = PoppedValue(dom, c)]
                     dom2 == PoppedDomain(dom, c)
                     lck2 == [lck EXCEPT ![c] = TRUE]
                 IN  ClosureOutcomes(val2, PropagateDomain(dom2, lck2, val2, c), lck2,
                                     (W \ {c}) \cup PropagateCells(dom2, lck2, val2, c),
                                     TRUE)
            ELSE ClosureOutcomes(val, dom, lck, W \ {c}, upd)
            : c \in W}

\* C14, as stated: at every point of a direct set_values call, all orders of
\* popping the rest of the worklist end with the same grid and the same
\* return value.
C14_PopOrderAsStated ==
    (pc = "sv_loop" /\ frame = "sv") =>
        Cardinality(ClosureOutcomes(value, domain, locked, work, updated)) = 1

\* C14, amended: the same, when the seed agrees with a complete valid
\* solution.
C14_PopOrder ==
    (pc = "sv_loop" /\ frame = "sv" /\ SolutionsOfSeed # {}) =>
        Cardinality(ClosureOutcomes(value, domain, locked, work, updated)) = 1

\* C14 witness: under a seed that agrees with a solution, a direct set_values
\* call holds two cells in its worklist, one with a single candidate and one
\* with two candidates of which that one is one.
C14_Witness ==
    /\ pc = "sv_loop"
    /\ frame = "sv"
    /\ SolutionsOfSeed # {}
    /\ \E c, n \in work :
          /\ c # n
          /\ ~locked[c]
          /\ ~locked[n]
          /\ Cardinality(domain[c]) = 1
          /\ Cardinality(domain[n]) = 2
          /\ domain[c] \subseteq domain[n]

\* C15: while a solve runs that was called at the level of the solve that had
\* just returned, no step changes the value, the candidates or the finality
\* of a cell.
C15_FixedPoint ==
    [][(caller = "solve" /\ again) =>
        (value' = value /\ domain' = domain /\ locked' = locked)]_vars

\* C15 witness: a solve of level 2 that made a cell final has returned, and
\* the solve of level 2 called after it has returned too.
C15_Witness ==
    /\ pc = "idle"
    /\ again
    /\ lvl = 2
    /\ \E c \in Cells : locked[c] /\ input_list[c + 1] = 0

\* C16: the cell that find_unique is about to force for a digit has not been
\* forced for an earlier digit of the same call.
C16_NoDoubleForcing ==
    (pc = "fu_loop" /\ k <= Side /\ IsUnique(dico_val[k])) =>
        ~locked[UniqueCase(dico_val[k])]

\* the number of non-final cells
NonFinalCount == Cardinality({c \in Cells : ~locked[c]})

\* C17: every step of a set_values loop lowers a natural-number measure of
\* what is left of it (so the loop empties its worklist and returns), and every
\* step of it that finalizes a cell lowers the number of non-final cells.
C17_ClosureTerminates ==
    /\ [][pc = "sv_loop" => StageLeft' < StageLeft]_vars
    /\ [][(pc = "sv_loop" /\ pc' = "sv_loop" /\ arg' # NoCell)
          => NonFinalCount' < NonFinalCount]_vars

\* C18: when a solve of level 1 or 2 has returned, no non-final cell has
\* exactly one candidate.
C18_NoForcedLeft ==
    (pc = "idle" /\ lvl \in {1, 2}) =>
        \A c \in Cells : ~locked[c] => Cardinality(domain[c]) # 1

\* C19: a non-final cell without candidates has value 0, and after any step
\* it is still non-final, with value 0 and without candidates; and while such
\* a cell exists a running call can always take its next step.
C19_EmptyStays ==
    /\ [](\A c \in Cells : (~locked[c] /\ domain[c] = {}) => value[c] = 0)
    /\ [][grid' # grid =>
            \A c \in Cells :
                (~locked[c] /\ domain[c] = {}) =>
                    (~locked'[c] /\ value'[c] = 0 /\ domain'[c] = {})]_vars
    /\ []((pc # "idle" /\ \E c \in Cells : ~locked[c] /\ domain[c] = {})
          => ENABLED SolveNext)

\* C19 witness: a solve has returned and a non-final cell has no candidate.
C19_Witness ==
    /\ pc = "idle"
    /\ lvl \in {1, 2}
    /\ \E c \in Cells : ~locked[c] /\ value[c] = 0 /\ domain[c] = {}

====
